---- MODULE Spec2Model ----
(***************************************************************************)
(* strava_km.py: refresh an OAuth token, page through the athlete's        *)
(* activities with retry/backoff, sum the distance of the cycling          *)
(* activities, render a progress card and write three output files.        *)
(***************************************************************************)
EXTENDS Integers, Sequences, FiniteSets, TLC

(***************************************************************************)
(* Bounds of the model.                                                    *)
(***************************************************************************)
\* Records a reliable server hands out in one run, over all pages.
MaxRecs == 3
\* Records an unreliable server hands out in one run, over all pages.
MaxRecsFaulty == 2
\* Precision of the binary floating point arithmetic (Python: 53 bits).
MantissaBits == 7
\* Smallest exponent of that arithmetic: one unit is 2^-FracBits km.
FracBits == 3
\* Tokens of a category string in the classifier's input space.
MaxStrLen == 2
\* draw_style_3 is applied to every total and goal up to this many tenths of
\* a kilometre, and to the larger ones of CardKms and CardGoals.
MaxTenths == 25

(***************************************************************************)
(* Strings.  A string is a sequence of tokens; SP is a whitespace          *)
(* character, every other token is a run of non-whitespace characters.     *)
(***************************************************************************)
SP == " "

Str(s) == [k |-> "str", s |-> s]
None == [k |-> "null", s |-> <<>>]
Missing == [k |-> "missing", s |-> <<>>]

RECURSIVE lstrip(_)
lstrip(s) == IF s # <<>> /\ Head(s) = SP THEN lstrip(Tail(s)) ELSE s

RECURSIVE rstrip(_)
rstrip(s) ==
    IF s # <<>> /\ s[Len(s)] = SP THEN rstrip(SubSeq(s, 1, Len(s) - 1)) ELSE s

\* str.strip()
strip(s) == rstrip(lstrip(s))

\* dict.get(key): None when the key is absent.
get(v) == IF v.k = "missing" THEN None ELSE v

\* (x or ""): None and the empty string are falsy.
or_empty(v) == IF v.k = "null" \/ v.s = <<>> THEN <<>> ELSE v.s

(***************************************************************************)
(* os.getenv / env()                                                       *)
(***************************************************************************)
Unset == [k |-> "unset", s |-> <<>>]

\* os.getenv(key, default)
getenv(v, default) == IF v.k = "unset" THEN default ELSE v

\* Mutant: only an unset variable is rejected, a blank one passes.
env_raises_unset_only(v, required) == required /\ v.k # "str"

\* env(key, default, required): TRUE when it raises "Missing required env var".
env_raises(v, required) ==
    required /\ (v.k # "str" \/ strip(v.s) = <<>>)

(***************************************************************************)
(* should_count                                                            *)
(***************************************************************************)
COUNTED == {<<"Ride">>, <<"GravelRide">>, <<"VirtualRide">>}

\* Mutant: either field decides, without precedence.
\* Mutant: the legacy field decides first.
should_count_legacy_first(activity) ==
    LET st == strip(or_empty(get(activity.sport_type)))
        t  == strip(or_empty(get(activity.type)))
    IN  IF t # <<>> THEN t \in COUNTED ELSE st \in COUNTED

should_count_either(activity) ==
    \/ strip(or_empty(get(activity.sport_type))) \in COUNTED
    \/ strip(or_empty(get(activity.type))) \in COUNTED

should_count(activity) ==
    LET st == strip(or_empty(get(activity.sport_type)))
        t  == strip(or_empty(get(activity.type)))
    IN  IF st # <<>> THEN st \in COUNTED ELSE t \in COUNTED

(***************************************************************************)
(* Floating point.  A float is a natural number of units of 2^-FracBits;   *)
(* it has at most MantissaBits significant bits, and every operation       *)
(* rounds its exact result to the nearest float, ties to the even          *)
(* mantissa, as IEEE 754 binary64 does with 53 bits.                       *)
(***************************************************************************)
pow2(n) == 2 ^ n

\* n/d rounded to the nearest integer, ties to even.
rne(n, d) ==
    LET q == n \div d
        r == n % d
    IN  IF 2 * r > d THEN q + 1
        ELSE IF 2 * r = d THEN q + (q % 2)
        ELSE q

\* The exponent e >= 0 at which n/d has at most MantissaBits bits.
RECURSIVE expo(_, _, _)
expo(n, d, e) ==
    IF n < d * pow2(MantissaBits + e) THEN e ELSE expo(n, d, e + 1)

\* The float nearest to n/d units.
fl(n, d) ==
    LET e == expo(n, d, 0)
    IN  rne(n, d * pow2(e)) * pow2(e)

\* a + b
fadd(a, b) == fl(a + b, 1)

\* float(meters): an integer number of meters as a float (unit: 1 m).
to_float(meters) == fl(meters, 1)

\* float(meters) / 1000.0, in units of 2^-FracBits km.
km_of(meters) == fl(to_float(meters) * pow2(FracBits), 1000)

(***************************************************************************)
(* iso_to_unix.  dateutil's parser is modelled on the inputs of the model: *)
(* a calendar date, or a timestamp with a UTC offset.                      *)
(***************************************************************************)
DEFAULT_START == "2025-10-01"

\* dtparser.parse: day since the epoch, second of the day, UTC offset if any.
Parsed ==
    [x \in {"2025-10-01", "2025-10-02", "2025-10-03",
            "2025-10-02T01:00:00+02:00"} |->
        CASE x = "2025-10-01" -> [day |-> 20362, sec |-> 0, aware |-> FALSE, off |-> 0]
          [] x = "2025-10-02" -> [day |-> 20363, sec |-> 0, aware |-> FALSE, off |-> 0]
          [] x = "2025-10-03" -> [day |-> 20364, sec |-> 0, aware |-> FALSE, off |-> 0]
          [] x = "2025-10-02T01:00:00+02:00" ->
                [day |-> 20363, sec |-> 3600, aware |-> TRUE, off |-> 7200]]

\* TRUE when dtparser.parse raises on the string.
parse_raises(s) == Len(s) # 1 \/ s[1] \notin DOMAIN Parsed

\* Mutant: the UTC offset of an aware value is dropped.
iso_to_unix_naive(s) ==
    LET d == Parsed[s[1]]
    IN  d.day * 86400 + d.sec

iso_to_unix(s) ==
    LET d == Parsed[s[1]]
        \* a naive value is taken as UTC
        utcoff == IF d.aware THEN d.off ELSE 0
    IN  d.day * 86400 + d.sec - utcoff

(***************************************************************************)
(* The process environment and the server's data.                          *)
(***************************************************************************)
CredInputs == {Unset, Str(<<>>), Str(<<SP>>), Str(<<"secret">>)}
StartInputs == {Unset, Str(<<>>), Str(<<"2025-10-02T01:00:00+02:00">>)}
EndInputs == {Unset, Str(<<SP>>), Str(<<"2025-10-01">>), Str(<<"2025-10-02">>)}
GoalInputs == {Unset, Str(<<"abc">>)}
\* datetime.now(timezone.utc).strftime("%Y-%m-%d")
Todays == {"2025-10-01", "2025-10-03"}

\* float(str): the numbers of the model.
Numbers == [x \in {"5000"} |-> 5000]
float_raises(s) == Len(strip(s)) # 1 \/ strip(s)[1] \notin DOMAIN Numbers
float_of(s) == Numbers[strip(s)[1]]

Num(v) == [k |-> "num", v |-> v]
NoNum(k) == [k |-> k, v |-> 0]

\* Activity records the server may return.
ActivityPool ==
    { [sport_type |-> Str(<<"Ride">>), type |-> Str(<<"Ride">>),
       distance |-> Num(16000)],
      [sport_type |-> Missing, type |-> Str(<<"VirtualRide">>),
       distance |-> Num(125)],
      [sport_type |-> Str(<<"EBikeRide">>), type |-> Str(<<"Ride">>),
       distance |-> Num(2000)],
      [sport_type |-> Str(<<"GravelRide">>), type |-> None,
       distance |-> NoNum("null")] }

\* Sequences over S of length lo..hi.
SeqsOf(S, lo, hi) == UNION {[1..n -> S] : n \in lo..hi}

\* a.get("distance") or 0
meters_of(a) == IF a.distance.k = "num" THEN a.distance.v ELSE 0

\* Mutant: every record is summed, should_count is not asked.
RECURSIVE sum_page_unfiltered(_, _)
sum_page_unfiltered(total, acts) ==
    IF acts = <<>> THEN total
    ELSE sum_page_unfiltered(fadd(total, km_of(meters_of(Head(acts)))),
                             Tail(acts))

\* Mutant: a page is summed on its own and its subtotal added to the total.
RECURSIVE subtotal(_, _)
subtotal(sub, acts) ==
    IF acts = <<>> THEN sub
    ELSE subtotal(IF should_count(Head(acts))
                    THEN fadd(sub, km_of(meters_of(Head(acts))))
                    ELSE sub,
                  Tail(acts))
sum_page_subtotal(total, acts) == fadd(total, subtotal(0, acts))

\* The for-loop over one page: the running total after the page's records.
RECURSIVE sum_page(_, _)
sum_page(total, acts) ==
    IF acts = <<>> THEN total
    ELSE sum_page(IF should_count(Head(acts))
                    THEN fadd(total, km_of(meters_of(Head(acts))))
                    ELSE total,
                  Tail(acts))

(***************************************************************************)
(* _get's classification of a response.                                    *)
(***************************************************************************)
\* Mutant: one attempt more.
tries_6 == 5 + 1
tries == 5
\* base_sleep = 1.5 s, in tenths of a second
base_sleep == 15
per_page == 200
TRANSIENT == {429, 500, 502, 503, 504}
\* Status 0 stands for no response: requests.get raises (timeout,
\* connection error).  304 stands for the statuses below 400 other than the
\* success: a redirection that requests does not follow.
GetStatuses == {0, 200, 304, 400, 401, 404} \cup TRANSIENT
PostStatuses == {200, 400, 401, 500}

\* Mutant: only the server errors raise.
raises_for_status_5xx(st) == st >= 500 /\ st < 600

\* requests.Response.raise_for_status raises on 4xx and 5xx.
raises_for_status(st) == st >= 400 /\ st < 600

\* Mutant: 401 is retried like the transient statuses.
disposition_retry_401(st) ==
    IF st = 400 THEN "bad_request"
    ELSE IF st \in TRANSIENT \cup {401} THEN "backoff"
    ELSE IF raises_for_status(st) THEN "http_error"
    ELSE "return"

\* Mutant: a 400 is retried like a transient status.
disposition_retry_400(st) ==
    IF st = 401 THEN "auth"
    ELSE IF st \in TRANSIENT \cup {400} THEN "backoff"
    ELSE IF raises_for_status(st) THEN "http_error"
    ELSE "return"

\* Lines 119-132, for a response with status st.
disposition(st) ==
    IF st = 401 THEN "auth"
    ELSE IF st = 400 THEN "bad_request"
    ELSE IF st \in TRANSIENT THEN "backoff"
    ELSE IF raises_for_status(st) THEN "http_error"
    ELSE "return"

\* resp.json() of line 144 raises on a response without a JSON body: a 304
\* carries no body.
json_raises(st) == st = 304

PNG == "docs/strava_km.png"
SVG == "docs/strava_km.svg"
TXT == "docs/latest.txt"

(***************************************************************************)
(* State.                                                                  *)
(***************************************************************************)
VARIABLES
    environ,        \* os.environ
    server,         \* the API: the answers it may give, the records it holds
    pc,             \* position of the run
    err,            \* the exception that ended the run, "" if none
    err_status,     \* HTTP status of that exception's response, 0 if none
    access,         \* main: access
    period_start,   \* main: period_start
    period_end,     \* main: period_end
    after,          \* fetch_km: after
    before,         \* fetch_km: before
    page,           \* fetch_km: page
    total_km,       \* fetch_km: total_km
    i,              \* _get: i
    resp,           \* _get: resp.status_code, 0 before the first response
    activities,     \* fetch_km: activities
    km,             \* main: km, <<>> until fetch_km returns <<total>>
    files,          \* output files written by this run
    \* history of the run
    n_post,         \* token POSTs issued
    post_status,    \* status of the token POST's response, 0 if none
    last_req,       \* parameters of the last GET
    last_sleep,     \* argument of the last time.sleep, in tenths of a second
    first_503,      \* the first response for the current page was a 503
    n_page_get,     \* GETs issued for the current page
    n_page_sleep,   \* sleeps performed for the current page
    got_pages,      \* the non-empty pages returned so far
    retried,        \* some page was fetched as: 503, then success
    \* the classifier on its own
    activity,
    counted,
    \* the card on its own
    card_km,        \* draw_style_3: km, in tenths of a kilometre
    goal_km,        \* draw_style_3: goal_km, in tenths of a kilometre
    card,           \* what draw_style_3 has drawn
    latest_txt      \* the line written to latest.txt

mvars == <<environ, server, pc, err, err_status, access, period_start, period_end,
           after, before, page, total_km, i, resp, activities, km, files,
           n_post, post_status, last_req, last_sleep, first_503, n_page_get,
           n_page_sleep, got_pages, retried>>
cvars == <<activity, counted>>
dvars == <<card_km, goal_km, card, latest_txt>>
vars == <<mvars, cvars, dvars>>

NoReq == [after |-> 0, before |-> 0, page |-> 0, per_page |-> 0, token |-> ""]

Environs == [STRAVA_CLIENT_ID : CredInputs,
             STRAVA_CLIENT_SECRET : CredInputs,
             STRAVA_REFRESH_TOKEN : CredInputs,
             PERIOD_START : StartInputs,
             PERIOD_END : EndInputs,
             GOAL_KM : GoalInputs]

\* The state of a process that has not run main yet.
Fresh ==
    /\ err = ""
    /\ err_status = 0
    /\ access = ""
    /\ period_start = <<>>
    /\ period_end = <<>>
    /\ after = 0
    /\ before = 0
    /\ page = 0
    /\ total_km = 0
    /\ i = 0
    /\ resp = 0
    /\ activities = <<>>
    /\ km = <<>>
    /\ files = {}
    /\ n_post = 0
    /\ post_status = 0
    /\ last_req = NoReq
    /\ last_sleep = 0
    /\ first_503 = FALSE
    /\ n_page_get = 0
    /\ n_page_sleep = 0
    /\ got_pages = <<>>
    /\ retried = FALSE

\* Nothing is drawn.
NoCard == [km_txt |-> <<>>, sub |-> <<>>, pct |-> <<0, 1>>, fill_w |-> 0]
Undrawn ==
    /\ card_km = 0
    /\ goal_km = 0
    /\ card = NoCard
    /\ latest_txt = <<>>

(***************************************************************************)
(* refresh_access_token                                                    *)
(***************************************************************************)
\* The first required variable env() rejects, "" if none.
missing_cred(e) ==
    IF env_raises(e.STRAVA_CLIENT_ID, TRUE) THEN "STRAVA_CLIENT_ID"
    ELSE IF env_raises(e.STRAVA_CLIENT_SECRET, TRUE) THEN "STRAVA_CLIENT_SECRET"
    ELSE IF env_raises(e.STRAVA_REFRESH_TOKEN, TRUE) THEN "STRAVA_REFRESH_TOKEN"
    ELSE ""

\* The message of env()'s RuntimeError for a variable.
env_error(key) ==
    CASE key = "STRAVA_CLIENT_ID" -> "Missing required env var: STRAVA_CLIENT_ID"
      [] key = "STRAVA_CLIENT_SECRET" ->
            "Missing required env var: STRAVA_CLIENT_SECRET"
      [] key = "STRAVA_REFRESH_TOKEN" ->
            "Missing required env var: STRAVA_REFRESH_TOKEN"

refresh_access_token ==
    /\ pc = "main"
    /\ IF missing_cred(environ) # ""
         THEN /\ pc' = "failed"
              /\ err' = env_error(missing_cred(environ))
              /\ UNCHANGED <<err_status, access, n_post, post_status>>
         ELSE \* requests.post; status 0: no response (timeout, connection)
              \E st \in PostStatuses \cup {0} :
                /\ n_post' = n_post + 1
                /\ post_status' = st
                /\ IF st = 0
                     THEN /\ pc' = "failed"
                          /\ err' = "RequestException"
                          /\ UNCHANGED <<err_status, access>>
                     ELSE IF raises_for_status(st)
                     THEN /\ pc' = "failed"
                          /\ err' = "HTTPError"
                          /\ err_status' = st
                          /\ UNCHANGED access
                     ELSE /\ pc' = "config"
                          /\ access' = "access_token"
                          /\ UNCHANGED <<err, err_status>>
    /\ UNCHANGED <<environ, server, period_start, period_end, after, before, page,
                   total_km, i, resp, activities, km, files, last_req,
                   last_sleep, first_503, n_page_get, n_page_sleep, got_pages,
                   retried, cvars, dvars>>

(***************************************************************************)
(* main, from the configuration to the call of fetch_km                    *)
(***************************************************************************)
\* period_start = env("PERIOD_START", "2025-10-01")
read_start(e) == getenv(e.PERIOD_START, Str(<<DEFAULT_START>>)).s

\* period_end = env("PERIOD_END", None), today's date when unset or blank
read_end(e, now) ==
    LET v == e.PERIOD_END
    IN  IF v.k = "unset" \/ v.s = <<>> \/ strip(v.s) = <<>>
          THEN <<now>> ELSE v.s

\* env("GOAL_KM", "5000")
read_goal(e) == getenv(e.GOAL_KM, Str(<<"5000">>)).s

\* Lines 224-239
main_config ==
    /\ pc = "config"
    /\ period_start' = read_start(environ)
    /\ \E now \in Todays : period_end' = read_end(environ, now)
    /\ IF float_raises(read_goal(environ))
         THEN /\ pc' = "failed"
              /\ err' = "ValueError"
         ELSE IF parse_raises(period_start') \/ parse_raises(period_end')
         THEN /\ pc' = "failed"
              /\ err' = "ParserError"
         ELSE IF iso_to_unix(period_start') >= iso_to_unix(period_end')
         THEN /\ pc' = "failed"
              /\ err' = "Ogiltig period"
         ELSE /\ pc' = "fetch"
              /\ UNCHANGED err
    /\ UNCHANGED <<environ, server, err_status, access, after, before, page,
                   total_km, i, resp, activities, km, files, n_post, post_status, last_req,
                   last_sleep, first_503, n_page_get, n_page_sleep, got_pages,
                   retried, cvars, dvars>>

(***************************************************************************)
(* fetch_km                                                                *)
(***************************************************************************)
\* Lines 100-112: the conversion, the check and the loop's initial state.
fetch_km ==
    /\ pc = "fetch"
    /\ after' = iso_to_unix(period_start)
    /\ before' = iso_to_unix(period_end)
    /\ IF after' >= before'
         THEN /\ pc' = "failed"
              /\ err' = "Ogiltig period"
              /\ UNCHANGED <<page, total_km, i>>
         ELSE /\ pc' = "get"
              /\ page' = 1
              /\ total_km' = 0
              /\ i' = 0
              /\ UNCHANGED err
    /\ UNCHANGED <<environ, server, err_status, access, period_start, period_end,
                   resp, activities, km, files, n_post, post_status, last_req, last_sleep,
                   first_503, n_page_get, n_page_sleep, got_pages, retried,
                   cvars, dvars>>

\* params of line 137 with the Authorization header of line 109
params(pg) == [after |-> after, before |-> before, page |-> pg,
               per_page |-> per_page, token |-> access]

\* Mutant: the delay grows by the base, not by doubling.
sleep_s_linear(n) == base_sleep * (n + 1)

\* The sleep of lines 128-129 after the response to attempt n (from 0).
sleep_s(n) == base_sleep * pow2(n)

\* Lines 119-125 and 131: the response raises e.
on_raise(e) ==
    /\ pc' = "failed"
    /\ err' = e
    /\ err_status' = resp'
    /\ UNCHANGED <<i, last_sleep, n_page_sleep, retried>>

\* Mutant: no sleep after the response to the last attempt.
on_backoff_but_last ==
    /\ IF i + 1 < tries
         THEN /\ last_sleep' = sleep_s(i)
              /\ n_page_sleep' = n_page_sleep + 1
         ELSE UNCHANGED <<last_sleep, n_page_sleep>>
    /\ i' = i + 1
    /\ pc' = "get"
    /\ UNCHANGED <<err, err_status, retried>>

\* Mutant: the retry is immediate, without the sleep.
on_backoff_nosleep ==
    /\ i' = i + 1
    /\ pc' = "get"
    /\ UNCHANGED <<err, err_status, retried, last_sleep, n_page_sleep>>

\* Lines 126-130: sleep, then the next iteration of the for-loop.
on_backoff ==
    /\ last_sleep' = sleep_s(i)
    /\ n_page_sleep' = n_page_sleep + 1
    /\ i' = i + 1
    /\ pc' = "get"
    /\ UNCHANGED <<err, err_status, retried>>

\* Lines 131-132: return resp; the call of _get and its i end.
on_return ==
    /\ pc' = "page"
    /\ i' = 0
    /\ retried' = (retried \/ (first_503 /\ n_page_get = 1 /\ resp' = 200))
    /\ UNCHANGED <<err, err_status, last_sleep, n_page_sleep>>

\* Lines 116-132: one iteration of _get's for-loop.  The request is sent and
\* answered with one of the server's statuses.
get_attempt ==
    /\ pc = "get"
    /\ i < tries
    /\ last_req' = params(page)
    /\ n_page_get' = n_page_get + 1
    /\ \E st \in server.statuses :
        /\ first_503' = IF n_page_get = 0 THEN st = 503 ELSE first_503
        /\ IF st = 0
             THEN /\ pc' = "failed"
                  /\ err' = "RequestException"
                  /\ UNCHANGED <<err_status, resp, i, last_sleep,
                                 n_page_sleep, retried>>
             ELSE /\ resp' = st
                  /\ CASE disposition(st) = "auth" -> on_raise("401")
                       [] disposition(st) = "bad_request" -> on_raise("400")
                       [] disposition(st) = "backoff" -> on_backoff
                       [] disposition(st) = "http_error" -> on_raise("HTTPError")
                       [] OTHER -> on_return
    /\ UNCHANGED <<environ, server, access, period_start, period_end, after, before,
                   page, total_km, activities, km, files, n_post, post_status, got_pages,
                   cvars, dvars>>

\* Line 134: the for-loop ran out; the last response raises.
get_exhausted ==
    /\ pc = "get"
    /\ i >= tries
    /\ pc' = "failed"
    /\ IF raises_for_status(resp)
         THEN err' = "HTTPError" /\ err_status' = resp
         ELSE \* _get returns None and resp.json() fails
              err' = "AttributeError" /\ UNCHANGED err_status
    /\ UNCHANGED <<environ, server, access, period_start, period_end, after, before,
                   page, total_km, i, resp, activities, km, files, n_post, post_status,
                   last_req, last_sleep, first_503, n_page_get, n_page_sleep,
                   got_pages, retried, cvars, dvars>>

\* Records the server has returned so far.
RECURSIVE n_records(_)
n_records(pages) ==
    IF pages = <<>> THEN 0 ELSE Len(Head(pages)) + n_records(Tail(pages))

\* Mutant: a page is skipped.
next_page_skip(pg) == pg + 2

\* Line 148: the page after the current one.
next_page(pg) == pg + 1

\* Lines 139-150: the body of a successful response is read; an empty one
\* returns the total, any other is summed and the next page is asked for.
process_page ==
    /\ pc = "page"
    /\ IF json_raises(resp)
         THEN /\ pc' = "failed"
              /\ err' = "JSONDecodeError"
              /\ UNCHANGED <<activities, total_km, page, i, got_pages, km,
                             n_page_get, n_page_sleep, first_503, last_sleep>>
         ELSE /\ activities' \in SeqsOf(ActivityPool, 0,
                                server.max_recs - n_records(got_pages))
              /\ IF activities' = <<>>
                   THEN /\ km' = <<total_km>>
                        /\ pc' = "render"
                        /\ UNCHANGED <<total_km, page, i, got_pages>>
                   ELSE /\ total_km' = sum_page(total_km, activities')
                        /\ page' = next_page(page)
                        /\ i' = 0
                        /\ got_pages' = Append(got_pages, activities')
                        /\ pc' = "get"
                        /\ UNCHANGED km
              \* the history of the page ends with the page
              /\ n_page_get' = 0
              /\ n_page_sleep' = 0
              /\ first_503' = FALSE
              /\ last_sleep' = 0
              /\ UNCHANGED err
    /\ UNCHANGED <<environ, server, err_status, access, period_start,
                   period_end, after, before, resp, files, n_post,
                   post_status, last_req, retried, cvars, dvars>>

(***************************************************************************)
(* The outputs: draw_style_3 and the text summary.                         *)
(***************************************************************************)
\* One write of an output file: it succeeds, or raises OSError.
write(f, next) ==
    /\ \E ok \in BOOLEAN :
         IF ok THEN /\ files' = files \cup {f}
                    /\ pc' = next
                    /\ UNCHANGED err
               ELSE /\ pc' = "failed"
                    /\ err' = "OSError"
                    /\ UNCHANGED files
    /\ UNCHANGED <<environ, server, err_status, access, period_start, period_end,
                   after, before, page, total_km, i, resp, activities, km,
                   n_post, post_status, last_req, last_sleep, first_503, n_page_get,
                   n_page_sleep, got_pages, retried, cvars, dvars>>

\* Lines 243 and 156-202: the card is drawn and saved as PNG.
save_png == pc = "render" /\ write(PNG, "svg")

\* Lines 205-216
write_svg == pc = "svg" /\ write(SVG, "txt")

\* Lines 248-250
write_txt == pc = "txt" /\ write(TXT, "done")

(***************************************************************************)
(* The run                                                                 *)
(***************************************************************************)
NoActivity == [sport_type |-> Missing, type |-> Missing]

\* A server that may answer anything, holding few records.
Faulty == [statuses |-> GetStatuses, max_recs |-> MaxRecsFaulty]
\* A server that answers 200 or 503, holding more records.
Reliable == [statuses |-> {200, 503}, max_recs |-> MaxRecs]

Init ==
    /\ environ \in Environs
    /\ server = Faulty
    /\ pc = "main"
    /\ Fresh
    /\ activity = NoActivity
    /\ counted = <<>>
    /\ Undrawn

Next ==
    \/ refresh_access_token
    \/ main_config
    \/ fetch_km
    \/ get_attempt
    \/ get_exhausted
    \/ process_page
    \/ save_png
    \/ write_svg
    \/ write_txt

Spec == Init /\ [][Next]_vars

\* The same run against the reliable server.
SumInit ==
    /\ environ \in Environs
    /\ server = Reliable
    /\ pc = "main"
    /\ Fresh
    /\ activity = NoActivity
    /\ counted = <<>>
    /\ Undrawn

SpecSum == SumInit /\ [][Next]_vars

(***************************************************************************)
(* should_count on its own, over every pair of category fields.            *)
(***************************************************************************)
CategoryTokens == {SP, "Ride", "GravelRide", "VirtualRide", "EBikeRide", "Run"}
FieldValues ==
    {Missing, None} \cup {Str(s) : s \in SeqsOf(CategoryTokens, 0, MaxStrLen)}

CountInit ==
    /\ activity \in [sport_type : FieldValues, type : FieldValues]
    /\ counted = <<>>
    /\ environ \in {e \in Environs : \A key \in DOMAIN e : e[key] = Unset}
    /\ server = Faulty
    /\ pc = "idle"
    /\ Fresh
    /\ Undrawn

classify ==
    /\ counted = <<>>
    /\ counted' = <<should_count(activity)>>
    /\ UNCHANGED <<activity, mvars, dvars>>

SpecCount == CountInit /\ [][classify]_vars

(***************************************************************************)
(* draw_style_3 and the text summary on their own.  km and goal_km are      *)
(* floats; the model takes those with one decimal digit, as integers in     *)
(* tenths, and takes the quotient and the product of lines 186-187 exactly. *)
(***************************************************************************)
W == 1200
PAD == 60
bar_w == W - 2 * PAD - 160

\* Mutant: the decimals are cut off.
round_down(tenths) == tenths \div 10

\* round(x) of a float with one decimal digit: to the nearest integer, a
\* half to the even one.
round(tenths) == rne(tenths, 10)

\* Fractions <<numerator, denominator>>, the denominator positive.
less(a, b) == a[1] * b[2] < b[1] * a[2]
\* Python's min(a, b) and max(a, b)
min(a, b) == IF less(b, a) THEN b ELSE a
max(a, b) == IF less(a, b) THEN b ELSE a

\* Mutant: the quotient is not capped at 1.
pct_uncapped(k, g) ==
    IF g <= 0 THEN <<0, 1>> ELSE max(<<0, 1>>, <<k, g>>)

\* Line 186.
pct(k, g) ==
    IF g <= 0 THEN <<0, 1>> ELSE max(<<0, 1>>, min(<<1, 1>>, <<k, g>>))

\* Line 187: int() of a non-negative float.
fill_w(p) == (bar_w * p[1]) \div p[2]

\* The formatted texts, as the sequences of their pieces.
km_txt(k) == <<round(k), " km">>
sub(k, g) == <<round(k), " / ", round(g), " km", " cyklade">>
latest(k, g) == <<round(k), " / ", round(g), " km">>

CardKms == (0 .. MaxTenths) \cup {3764, 3765, 3775, 50000, 60000}
CardGoals == (-MaxTenths .. MaxTenths) \cup {50000}

draw_style_3 ==
    /\ pc = "draw"
    /\ card' = [km_txt |-> km_txt(card_km),
                sub |-> sub(card_km, goal_km),
                pct |-> pct(card_km, goal_km),
                fill_w |-> fill_w(pct(card_km, goal_km))]
    /\ pc' = "text"
    /\ UNCHANGED <<environ, server, err, err_status, access, period_start,
                   period_end, after, before, page, total_km, i, resp,
                   activities, km, files, n_post, post_status, last_req,
                   last_sleep, first_503, n_page_get, n_page_sleep, got_pages,
                   retried, cvars, card_km, goal_km, latest_txt>>

\* Lines 249-250.
write_latest ==
    /\ pc = "text"
    /\ latest_txt' = latest(card_km, goal_km)
    /\ pc' = "shown"
    /\ UNCHANGED <<environ, server, err, err_status, access, period_start,
                   period_end, after, before, page, total_km, i, resp,
                   activities, km, files, n_post, post_status, last_req,
                   last_sleep, first_503, n_page_get, n_page_sleep, got_pages,
                   retried, cvars, card_km, goal_km, card>>

CardInit ==
    /\ card_km \in CardKms
    /\ goal_km \in CardGoals
    /\ card = NoCard
    /\ latest_txt = <<>>
    /\ activity = NoActivity
    /\ counted = <<>>
    /\ environ \in {e \in Environs : \A key \in DOMAIN e : e[key] = Unset}
    /\ server = Faulty
    /\ pc = "draw"
    /\ Fresh

CardNext == draw_style_3 \/ write_latest

SpecCard == CardInit /\ [][CardNext]_vars

(***************************************************************************)
(* Properties                                                              *)
(***************************************************************************)
RECURSIVE flatten(_)
flatten(pages) ==
    IF pages = <<>> THEN <<>> ELSE Head(pages) \o flatten(Tail(pages))

\* What one record adds to the total.
contribution(a) ==
    IF should_count(a)
      THEN (IF a.distance.k \in {"null", "missing"}
              THEN 0 ELSE km_of(a.distance.v))
      ELSE 0

\* The contributions of the records, added up in their order.
RECURSIVE total_of(_)
total_of(recs) ==
    IF recs = <<>> THEN 0
    ELSE fadd(total_of(SubSeq(recs, 1, Len(recs) - 1)),
              contribution(recs[Len(recs)]))

\* A GET is sent in this step.
Issued == n_page_get' = n_page_get + 1

\* C1: a period with start >= end makes the run fail with the period error
\* before any network request: no token POST and no activities GET has been
\* sent when that error is raised.
C1_NoRequestBeforePeriodError ==
    (pc = "failed" /\ err = "Ogiltig period")
        => (n_post = 0 /\ last_req = NoReq)

\* C2: a run that ends in an error has written none of the output files.
C2_NoOutputOnError ==
    pc = "failed" => files = {}

\* C3: a 401 response, on any page and at any attempt, ends fetch_km at once
\* with the authorization error: no sleep follows it and no step follows the
\* failure, so no further GET is sent.
C3_AuthIsFatal ==
    [][ /\ (pc = "get" /\ i < tries /\ resp' = 401)
            => /\ pc' = "failed"
               /\ err' = "401"
               /\ err_status' = 401
               /\ n_page_sleep' = n_page_sleep
               /\ last_sleep' = last_sleep
               /\ i' = i
        /\ ~(pc = "failed" /\ err = "401") ]_vars

C3_Witness ==
    pc = "failed" /\ err = "401" /\ page = 2 /\ n_page_get = 3

\* C4: no page is asked for more than 5 times, and after 5 transient
\* responses for a page the only step is the raise of the last response's
\* error: no GET, no total returned, the pages summed so far are dropped.
C4_Exhaustion ==
    /\ [](n_page_get <= 5)
    /\ [][ (pc = "get" /\ n_page_get = 5)
            => /\ resp \in TRANSIENT
               /\ pc' = "failed"
               /\ err' = "HTTPError"
               /\ err_status' = resp
               /\ ~Issued
               /\ last_req' = last_req
               /\ km' = <<>>
               /\ files' = {} ]_vars

C4_Witness ==
    /\ pc = "failed" /\ err = "HTTPError" /\ err_status = 504
    /\ n_page_get = 5
    /\ got_pages # <<>> /\ total_km > 0
    /\ km = <<>>

\* C5: when the first response for a page is a 503 and the second request
\* succeeds, that page took exactly 2 GETs with exactly one sleep between
\* them, no further GET is sent for it, and the total returned in the end is
\* the total of the pages as a run without the 503 returns it.
C5_RetryOnce ==
    /\ []((retried /\ km # <<>>) => km = <<total_of(flatten(got_pages))>>)
    /\ [][ /\ (pc = "get" /\ first_503 /\ n_page_get = 1 /\ resp' = 200
                /\ Issued)
                => /\ pc' = "page"
                   /\ n_page_get' = 2
                   /\ n_page_sleep' = 1
                   /\ last_req'.page = page
                   /\ retried'
           /\ pc = "page" => ~Issued ]_vars

C5_Witness ==
    /\ pc = "done" /\ retried
    /\ km # <<>> /\ total_km > 0

\* C6 as claimed: should_count is true exactly when one of the two fields
\* holds Ride, GravelRide or VirtualRide, whatever the other field holds.
C6_EitherField ==
    counted # <<>>
        => counted[1] = (\/ strip(or_empty(get(activity.sport_type))) \in COUNTED
                         \/ strip(or_empty(get(activity.type))) \in COUNTED)

Blank(v) == v.k \in {"missing", "null"} \/ \A n \in 1..Len(v.s) : v.s[n] = SP
Listed(v) ==
    /\ v.k = "str"
    /\ \E c \in {"Ride", "GravelRide", "VirtualRide"} :
         \E n \in 1..Len(v.s) :
            /\ v.s[n] = c
            /\ \A m \in 1..Len(v.s) : m # n => v.s[m] = SP

\* C6 as amended: should_count is true exactly when sport_type, trimmed, is a
\* listed category, or sport_type is missing, null or blank and type,
\* trimmed, is a listed category.
C6_Precedence ==
    counted # <<>>
        => counted[1] = (\/ Listed(activity.sport_type)
                         \/ Blank(activity.sport_type) /\ Listed(activity.type))

C6_Witness ==
    /\ counted = <<FALSE>>
    /\ activity.sport_type = Str(<<"EBikeRide">>)
    /\ activity.type = Str(<<"Ride">>)

\* C7: the first GET asks for page 1; every GET asks for the page after the
\* non-empty pages received so far, which is the page of the GET before it or
\* the next one, and the next one only after a 200 response with records;
\* once a 200 response had no records the total is returned and no GET
\* follows; an empty page 1 returns 0.
C7_Pagination ==
    /\ []((km # <<>> /\ got_pages = <<>>) => (km = <<0>> /\ last_req.page = 1))
    /\ [][ /\ Issued
            => /\ last_req'.page = Len(got_pages) + 1
               /\ last_req = NoReq => last_req'.page = 1
               /\ last_req # NoReq
                    => last_req'.page \in {last_req.page, last_req.page + 1}
               /\ (last_req # NoReq /\ last_req'.page = last_req.page + 1)
                    => (resp = 200 /\ activities # <<>>
                        /\ activities = got_pages[Len(got_pages)])
           /\ km # <<>> => ~Issued
           /\ (pc = "page" /\ resp = 200 /\ activities' = <<>>)
                => (km' = <<total_km>> /\ pc' = "render") ]_vars

C7_Witness ==
    /\ km # <<>>
    /\ Len(got_pages) = 2
    /\ last_req.page = 3

\* Epoch seconds of the period inputs, from the calendar.
Epoch ==
    [x \in DOMAIN Parsed |->
        CASE x = "2025-10-01" -> 1759276800
          [] x = "2025-10-02" -> 1759363200
          [] x = "2025-10-03" -> 1759449600
          [] x = "2025-10-02T01:00:00+02:00" -> 1759359600]

\* C8: every GET, on every page and every retry, carries after = epoch(start),
\* before = epoch(end) and per_page = 200, with start < end; from one GET to
\* the next only the page changes.
C8_Params ==
    /\ [](last_req # NoReq
            => /\ last_req.after = Epoch[period_start[1]]
               /\ last_req.before = Epoch[period_end[1]]
               /\ last_req.after < last_req.before
               /\ last_req.per_page = 200)
    /\ [][ (Issued /\ last_req # NoReq)
            => last_req' = [last_req EXCEPT !.page = last_req'.page] ]_vars

C8_Witness ==
    /\ period_start = <<"2025-10-02T01:00:00+02:00">>
    /\ last_req.after = 1759359600
    /\ last_req.before = 1759363200
    /\ last_req.page = 2
    /\ n_page_get = 2

\* C9: the running total is at every moment the sum of the contributions of
\* the records of the non-empty pages received so far, each record once, in
\* their order of arrival: distance/1000 for a record should_count accepts
\* (0 when the distance is absent or null), 0 for one it rejects; the total
\* returned is that sum over all the pages.
C9_Total ==
    /\ pc \in {"get", "page"} => total_km = total_of(flatten(got_pages))
    /\ km # <<>> => km = <<total_of(flatten(got_pages))>>

C9_Witness ==
    /\ km # <<>> /\ km[1] > 0
    /\ Len(got_pages) = 2
    /\ \E n \in 1..Len(flatten(got_pages)) :
         ~should_count(flatten(got_pages)[n])
    /\ \E n \in 1..Len(flatten(got_pages)) :
         /\ should_count(flatten(got_pages)[n])
         /\ flatten(got_pages)[n].distance.k = "null"

\* The records recs in the order f.
Reordered(recs, f) == [n \in 1..Len(recs) |-> recs[f[n]]]

\* C10 as claimed: the total returned is the total of a single page holding
\* the same records, in whatever order they appear.
C10_AnyOrder ==
    km # <<>>
        => LET recs == flatten(got_pages)
           IN  \A f \in Permutations(1..Len(recs)) :
                 km = <<sum_page(0, Reordered(recs, f))>>

\* C10 as amended: the total returned is the total of a single page holding
\* the same records in the same order, however they are split into pages.
C10_AnySplit ==
    km # <<>> => km = <<sum_page(0, flatten(got_pages))>>

C10_Witness ==
    /\ km # <<>> /\ km[1] > 0
    /\ Len(got_pages) = 2
    /\ Len(got_pages[2]) = 2
    /\ \A n \in 1..3 : should_count(flatten(got_pages)[n])

\* A credential env() rejects: not set, empty, or whitespace only.
NoCred(v) == v.k = "unset" \/ \A n \in 1..Len(v.s) : v.s[n] = SP

\* C11: when one of the three credentials is missing or blank, the run has
\* sent no request at any moment, and its only step is the failure with the
\* configuration error of the first such variable.
C11_CredentialsFirst ==
    LET id == NoCred(environ.STRAVA_CLIENT_ID)
        secret == NoCred(environ.STRAVA_CLIENT_SECRET)
        token == NoCred(environ.STRAVA_REFRESH_TOKEN)
    IN  (id \/ secret \/ token)
          => /\ n_post = 0
             /\ last_req = NoReq
             /\ pc \in {"main", "failed"}
             /\ pc = "failed"
                  => err = IF id
                             THEN "Missing required env var: STRAVA_CLIENT_ID"
                           ELSE IF secret
                             THEN "Missing required env var: STRAVA_CLIENT_SECRET"
                           ELSE "Missing required env var: STRAVA_REFRESH_TOKEN"

C11_Witness ==
    /\ environ.STRAVA_CLIENT_ID = Str(<<"secret">>)
    /\ environ.STRAVA_CLIENT_SECRET = Str(<<"secret">>)
    /\ environ.STRAVA_REFRESH_TOKEN = Str(<<SP>>)
    /\ pc = "failed"
    /\ err = "Missing required env var: STRAVA_REFRESH_TOKEN"
    /\ n_post = 0

\* C12: a run sends at most one token POST; a POST answered with a 4xx or
\* 5xx status ends the run with that error and no GET; after a successful
\* POST no step sends another or changes the token, and every GET carries it.
C12_OneToken ==
    /\ [](n_post <= 1)
    /\ []((post_status # 0 /\ post_status # 200)
            => /\ pc = "failed" /\ err = "HTTPError"
               /\ err_status = post_status
               /\ last_req = NoReq /\ access = "")
    /\ [](last_req # NoReq
            => /\ n_post = 1 /\ post_status = 200
               /\ access = "access_token"
               /\ last_req.token = access)
    /\ [][pc # "main" => (n_post' = n_post /\ access' = access)]_vars

C12_Witness ==
    /\ n_post = 1
    /\ last_req.token = "access_token"
    /\ last_req.page = 2
    /\ n_page_get = 3

\* The statuses of C13: not the success, not 401, not transient.
OtherStatus(st) == st \notin {0, 200, 401} \cup TRANSIENT

C14_FillWithinBar ==
    pc \in {"text", "shown"}
      => /\ 0 <= card.fill_w /\ card.fill_w <= bar_w
         /\ card.pct[2] > 0
         /\ goal_km <= 0 => (card.pct[1] = 0 /\ card.fill_w = 0)
         /\ (goal_km > 0 /\ card_km >= goal_km)
              => (card.pct[1] = card.pct[2] /\ card.fill_w = bar_w)
         /\ (goal_km > 0 /\ card_km < goal_km)
              => /\ card.pct[1] * goal_km = card_km * card.pct[2]
                 /\ card.fill_w * goal_km <= bar_w * card_km
                 /\ bar_w * card_km < (card.fill_w + 1) * goal_km

C14_Witness ==
    /\ pc = "text"
    /\ card_km = 20
    /\ goal_km = 15
    /\ card.fill_w = 920

\* The integer nearest to a number of tenths (either one at a half).
Nearest(n, tenths) == 10 * n - 5 <= tenths /\ tenths <= 10 * n + 5

C16_TwoStepLookup ==
    counted # <<>>
      => IF Blank(activity.sport_type)
           THEN /\ counted[1] = Listed(activity.type)
                /\ \A v \in {u \in FieldValues : Blank(u)} :
                     should_count([activity EXCEPT !.sport_type = v])
                       = counted[1]
           ELSE /\ counted[1] = Listed(activity.sport_type)
                /\ \A v \in FieldValues :
                     should_count([activity EXCEPT !.type = v]) = counted[1]

C16_Witness ==
    /\ counted = <<TRUE>>
    /\ activity.sport_type = Str(<<"Ride", SP>>)
    /\ activity.type = Str(<<"Run">>)

\* A GET is sent in this step and answered with a transient status.
TransientAnswer ==
    Issued /\ resp' \in TRANSIENT /\ err' # "RequestException"

\* C17: the k-th transient response in a row for a page is followed by a
\* sleep of 1.5 s times 2^(k-1), that is 1.5, 3, 6, 12 and 24 s (in tenths),
\* and the GET after it asks for the same page with the same parameters; the
\* first GET of every page starts with no attempt and no sleep counted.
C17_Backoff ==
    /\ [](n_page_sleep > 0
            => last_sleep = <<15, 30, 60, 120, 240>>[n_page_sleep])
    /\ [][ /\ TransientAnswer
                => /\ n_page_sleep' = n_page_get'
                   /\ n_page_sleep' = n_page_sleep + 1
                   /\ 2 * last_sleep' = 3 * 5 * pow2(n_page_sleep')
                   /\ page' = page
                   /\ pc' = "get"
           /\ (Issued /\ n_page_get > 0)
                => (resp \in TRANSIENT /\ last_req' = last_req)
           /\ (Issued /\ n_page_get = 0)
                => (i = 0 /\ n_page_sleep = 0 /\ last_req'.page = page) ]_vars

C17_Witness ==
    /\ pc = "get"
    /\ page = 2
    /\ n_page_get = 3
    /\ n_page_sleep = 3
    /\ last_sleep = 60

\* C18 as stated: a GET that gets no response is retried, so the run does
\* not end on a transport failure before the fifth attempt for a page.
C18_TransportRetried ==
    (pc = "failed" /\ err = "RequestException" /\ n_page_get > 0)
      => n_page_get = 5

\* C19: the running total is never negative and never decreases; a step
\* changes it only by processing a page that holds a record should_count
\* accepts, with a distance; pages of rejected records, failed attempts and
\* sleeps leave it as it is.
C19_TotalMonotone ==
    /\ [](total_km >= 0)
    /\ [][ /\ total_km' >= total_km
           /\ total_km' # total_km
                => /\ pc = "page"
                   /\ \E n \in 1..Len(activities') :
                        /\ should_count(activities'[n])
                        /\ meters_of(activities'[n]) > 0
           /\ (pc = "page" /\ \A n \in 1..Len(activities') :
                                 ~should_count(activities'[n]))
                => total_km' = total_km
           /\ pc # "page" => total_km' = total_km ]_vars

C19_Witness ==
    /\ pc = "get"
    /\ Len(got_pages) = 2
    /\ should_count(got_pages[1][1])
    /\ ~should_count(got_pages[2][1])
    /\ meters_of(got_pages[2][1]) > 0
    /\ total_km > 0
    /\ n_page_sleep = 1

\* C20: every transient response is followed by a sleep, the fifth too: when
\* the attempts of a page are used up, five GETs were sent and five sleeps
\* made for it, the last of 1.5 s times 2^4 = 24 s, and the error of the
\* last response is raised in a later step than that sleep, without a GET.
C20_SleepBeforeGivingUp ==
    /\ []((n_page_get = 5 /\ resp \in TRANSIENT /\ err # "RequestException")
            => (n_page_sleep = 5 /\ last_sleep = 240))
    /\ [][ /\ TransientAnswer
                => (n_page_sleep' = n_page_sleep + 1 /\ last_sleep' > 0
                    /\ pc' = "get" /\ err' = "")
           /\ (pc' = "failed" /\ err' = "HTTPError" /\ err_status' \in TRANSIENT
               /\ post_status' = 200)
                => /\ ~Issued
                   /\ pc = "get"
                   /\ n_page_get = 5
                   /\ n_page_sleep = 5
                   /\ last_sleep = 240 ]_vars

C20_Witness ==
    /\ pc = "failed"
    /\ err = "HTTPError"
    /\ err_status = 429
    /\ n_page_get = 5
    /\ n_page_sleep = 5
    /\ last_sleep = 240

====
